---- MODULE Spec2Model ----
(***************************************************************************)
(* A model of the two capability dispatchers of the repository and of the  *)
(* bounded agent loop built on one of them:                                *)
(*   - src/05_Agents/openai_agent.py: the tool functions, TOOL_FUNCTIONS,  *)
(*     execute_tool_call and the loop of run_agent;                        *)
(*   - src/04_MCP/mcp_server_example.py: SimpleMCPServer (register_tool,   *)
(*     register_resource, call_tool) and its tool coroutines.              *)
(* Python values are tagged records: Num(n) is a JSON number, Str(s) a     *)
(* JSON string.  A call either returns a value or raises an exception.     *)
(***************************************************************************)
EXTENDS Integers, Sequences, FiniteSets, TLC

(***************************************************************************)
(* Bounds of the model.                                                    *)
(***************************************************************************)
\* the largest iteration ceiling (max_iterations) a session is started with
MaxCeiling == 3
\* the most tool calls one model response names
MaxBatch == 2
\* the most tool calls the model boundary names during one session
MaxToolCalls == 4
\* the most entries of SimpleMCPServer.tools
MaxTools == 3
\* numeric arguments range over -MaxNum .. MaxNum
MaxNum == 2
\* the most entries of SimpleMCPServer.resources
MaxResources == 2
\* the iteration ceiling of each of two sessions run side by side
MaxPairCeiling == 2

(***************************************************************************)
(* Python values and call outcomes.                                        *)
(***************************************************************************)
Num(n) == [t |-> "num", n |-> n]
Str(s) == [t |-> "str", s |-> s]
\* a / b of two Python numbers, kept as the unreduced quotient
Quot(n, d) == [t |-> "quot", n |-> n, d |-> d]
\* math.sqrt(a), kept symbolically
Sqrt(a) == [t |-> "sqrt", of |-> a]
None == [t |-> "none"]

IsNum(v) == v.t = "num"
IsStr(v) == v.t = "str"

Return(v) == [raised |-> FALSE, value |-> v]
Raise(e) == [raised |-> TRUE, exc |-> e]

\* an argument mapping with no entry
NoArgs == [k \in {} |-> None]

(***************************************************************************)
(* Keyword binding of a call with unpacked arguments: TypeError when a    *)
(* parameter without default is missing or a keyword names no parameter.  *)
(***************************************************************************)
Binds(signature, args) ==
    /\ signature.required \subseteq DOMAIN args
    /\ DOMAIN args \subseteq (signature.required \cup signature.optional)

\* the parameters of the tool functions and coroutines (their def lines)
Signature(function) ==
    CASE function \in {"calculator", "calculator_tool"} ->
             [required |-> {"operation", "a", "b"}, optional |-> {}]
      [] function = "get_weather" ->
             [required |-> {"location"}, optional |-> {"unit"}]
      [] function = "search_knowledge_base" ->
             [required |-> {"query"}, optional |-> {}]
      [] function = "get_time_tool" -> [required |-> {}, optional |-> {}]
      [] function = "echo_tool" -> [required |-> {"message"}, optional |-> {}]

(***************************************************************************)
(* openai_agent.py: calculator.  The dict literal evaluates every entry    *)
(* before the requested one is looked up, so each operator is applied to   *)
(* a and b whatever `operation` is.                                        *)
(***************************************************************************)
RECURSIVE IntPow(_, _)
IntPow(a, b) == IF b = 0 THEN 1 ELSE a * IntPow(a, b - 1)

\* a ** b for Python ints: a float (here a quotient) when b < 0
Power(a, b) == IF b >= 0 THEN Num(IntPow(a, b)) ELSE Quot(1, IntPow(a, 0 - b))

\* the entries of `operations` for numbers a, b and the requested operation
calculator_operations(operation, a, b) ==
    [add      |-> Num(a + b),
     subtract |-> Num(a - b),
     multiply |-> Num(a * b),
     divide   |-> IF b # 0 THEN Quot(a, b) ELSE Str("Error: Division by zero"),
     power    |-> Power(a, b),
     sqrt     |-> IF operation = Str("sqrt") THEN Sqrt(a) ELSE None]

\* the exception, if any, that building `operations` raises ("" when none)
calculator_fault(operation, a, b) ==
    IF ~(IsNum(a) /\ IsNum(b)) THEN "TypeError"           \* a - b on a str
    ELSE IF a.n = 0 /\ b.n < 0 THEN "ZeroDivisionError"   \* 0 ** negative
    ELSE IF operation = Str("sqrt") /\ a.n < 0 THEN "ValueError"
    ELSE ""

calculator(args) ==
    IF ~Binds(Signature("calculator"), args) THEN Raise("TypeError")
    ELSE LET operation == args["operation"]
             a == args["a"]
             b == args["b"]
             fault == calculator_fault(operation, a, b)
         IN IF fault # "" THEN Raise(fault)
            ELSE LET operations == calculator_operations(operation, a.n, b.n)
                     result == IF IsStr(operation) /\ operation.s \in DOMAIN operations
                               THEN operations[operation.s]
                               ELSE Str("Unknown operation")
                 IN Return([operation |-> operation,
                            result |-> result,
                            calculation |-> <<operation, a, b, result>>])

(***************************************************************************)
(* openai_agent.py: get_weather.  weather_data is built anew on each call; *)
(* the clock reading of `timestamp` is kept as the token "now".            *)
(***************************************************************************)
\* str.lower() on the location strings of the model
Lower(s) ==
    CASE s = "Paris" -> "paris"
      [] s = "TOKYO" -> "tokyo"
      [] OTHER -> s

weather_data ==
    ("new york" :> [temp |-> 22, condition |-> "Sunny", humidity |-> 65]) @@
    ("london" :> [temp |-> 15, condition |-> "Cloudy", humidity |-> 80]) @@
    ("tokyo" :> [temp |-> 25, condition |-> "Clear", humidity |-> 70]) @@
    ("paris" :> [temp |-> 18, condition |-> "Rainy", humidity |-> 85])

weather_default == [temp |-> 20, condition |-> "Unknown", humidity |-> 60]

get_weather(args) ==
    IF ~Binds(Signature("get_weather"), args) THEN Raise("TypeError")
    ELSE LET location == args["location"]
             unit == IF "unit" \in DOMAIN args THEN args["unit"] ELSE Str("celsius")
         IN IF ~IsStr(location) THEN Raise("AttributeError")   \* location.lower()
            ELSE LET location_lower == Lower(location.s)
                     data == IF location_lower \in DOMAIN weather_data
                             THEN weather_data[location_lower]
                             ELSE weather_default
                     fahrenheit == unit = Str("fahrenheit")
                 IN Return([location |-> location,
                            temp |-> IF fahrenheit
                                     THEN Quot(data.temp * 9 + 32 * 5, 5)
                                     ELSE Num(data.temp),
                            condition |-> data.condition,
                            humidity |-> data.humidity,
                            unit |-> IF fahrenheit THEN "F" ELSE "C",
                            timestamp |-> "now"])

(***************************************************************************)
(* openai_agent.py: search_knowledge_base.  The first key of `knowledge`   *)
(* (python, ai, agent, llm) contained in the lowered query decides.        *)
(***************************************************************************)
\* the keys of `knowledge` that occur in the lowered query, in dict order
QueryKeys(q) ==
    CASE q = "What is an AI agent?" -> <<"ai", "agent">>
      [] q = "python" -> <<"python">>
      [] OTHER -> <<>>

search_knowledge_base(args) ==
    IF ~Binds(Signature("search_knowledge_base"), args) THEN Raise("TypeError")
    ELSE LET query == args["query"]
         IN IF ~IsStr(query) THEN Raise("AttributeError")      \* query.lower()
            ELSE LET keys == QueryKeys(query.s)
                 IN Return([found |-> keys # <<>>,
                            query |-> query,
                            answer |-> IF keys # <<>> THEN keys[1]
                                       ELSE "No information found."])

(***************************************************************************)
(* openai_agent.py: TOOL_FUNCTIONS and execute_tool_call.  A tool call is  *)
(* [id, name, json, args]: json = "malformed" when function.arguments is   *)
(* not JSON text (json.loads raises), otherwise args is the decoded        *)
(* mapping.                                                                *)
(***************************************************************************)
TOOL_FUNCTIONS == {"calculator", "get_weather", "search_knowledge_base"}

ApplyToolFunction(name, args) ==
    CASE name = "calculator" -> calculator(args)
      [] name = "get_weather" -> get_weather(args)
      [] name = "search_knowledge_base" -> search_knowledge_base(args)

execute_tool_call(tool_call) ==
    IF tool_call.json = "malformed" THEN Raise("JSONDecodeError")
    ELSE IF tool_call.name \in TOOL_FUNCTIONS
         THEN LET result == ApplyToolFunction(tool_call.name, tool_call.args)
              IN IF result.raised THEN result
                 ELSE Return([key |-> "result", result |-> result.value])
         ELSE Return([key |-> "error",
                      error |-> <<"Unknown function: ", tool_call.name>>])

\* the tool function whose body execute_tool_call runs, "" when it runs
\* none (json.loads raised, the name is unknown, or the arguments do not
\* bind to the parameters)
HandlerEntered(tool_call) ==
    IF /\ tool_call.json # "malformed"
       /\ tool_call.name \in TOOL_FUNCTIONS
       /\ Binds(Signature(tool_call.name), tool_call.args)
    THEN tool_call.name ELSE ""

(***************************************************************************)
(* mcp_server_example.py: the tool coroutines.  A handler is named by its  *)
(* function; str(result) is kept as the tuple of the parts of the text.    *)
(***************************************************************************)
\* the strings float() accepts, with their values
NumericText == ("15" :> 15) @@ ("27" :> 27) @@ ("0" :> 0)

\* float(v): the number of a number or of a numeric string, else ValueError
FloatOf(v) ==
    IF IsNum(v) THEN Return(v.n)
    ELSE IF IsStr(v) /\ v.s \in DOMAIN NumericText THEN Return(NumericText[v.s])
    ELSE Raise("ValueError")

calculator_tool(args) ==
    IF ~Binds(Signature("calculator_tool"), args) THEN Raise("TypeError")
    ELSE LET operation == args["operation"]
             a == args["a"]
             b == args["b"]
         IN IF IsStr(operation) /\ operation.s \in {"add", "subtract", "multiply", "divide"}
            THEN LET x == FloatOf(a)
                     y == FloatOf(b)
                 IN IF x.raised THEN x
                    ELSE IF y.raised THEN y
                    ELSE LET result ==
                                 CASE operation.s = "add" -> Num(x.value + y.value)
                                   [] operation.s = "subtract" -> Num(x.value - y.value)
                                   [] operation.s = "multiply" -> Num(x.value * y.value)
                                   [] operation.s = "divide" ->
                                        IF y.value # 0 THEN Quot(x.value, y.value)
                                        ELSE Str("Error: Division by zero")
                         IN Return(<<operation, a, b, " = ", result>>)
            ELSE Return(<<"Unknown operation: ", operation>>)

get_time_tool(args) ==
    IF ~Binds(Signature("get_time_tool"), args) THEN Raise("TypeError")
    ELSE Return(<<"Current time: ", "now">>)

echo_tool(args) ==
    IF ~Binds(Signature("echo_tool"), args) THEN Raise("TypeError")
    ELSE Return(<<"Echo: ", args["message"]>>)

Handlers == {"calculator_tool", "get_time_tool", "echo_tool"}

ApplyHandler(handler, args) ==
    CASE handler = "calculator_tool" -> calculator_tool(args)
      [] handler = "get_time_tool" -> get_time_tool(args)
      [] handler = "echo_tool" -> echo_tool(args)

(***************************************************************************)
(* mcp_server_example.py: SimpleMCPServer.  self.tools is the sequence of  *)
(* registered entries [name, handler]; register_tool appends, call_tool    *)
(* scans from the front and returns at the first entry of that name.       *)
(***************************************************************************)
register_tool(registry, name, description, handler) ==
    Append(registry, [name |-> name,
                      description |-> description,
                      handler |-> handler,
                      inputSchema |-> [type |-> "object", properties |-> NoArgs]])

\* self.resources.append(resource)
register_resource(registry, uri, name, mime_type, content) ==
    Append(registry, [uri |-> uri,
                      name |-> name,
                      mimeType |-> mime_type,
                      description |-> <<"Resource: ", name>>,
                      content |-> content])

\* the uris the resources are asked for and what they read when letter
\* case is ignored
CaseFolded ==
    ("resource://documentation" :> "resource://documentation")
    @@ ("resource://config" :> "resource://config")
    @@ ("RESOURCE://CONFIG" :> "resource://config")
    @@ ("resource://conf" :> "resource://conf")
    @@ ("resource://unknown" :> "resource://unknown")

\* UriMatches with letter case ignored
UriMatchesFolded(registered, uri) == CaseFolded[registered] = CaseFolded[uri]

\* resource["uri"] == uri
UriMatches(registered, uri) == registered = uri

\* ResourceIndex with the scan keeping the last entry of the uri
ResourceIndexLast(registry, uri) ==
    LET hits == {i \in 1..Len(registry) : UriMatches(registry[i].uri, uri)}
    IN IF hits = {} THEN 0
       ELSE CHOOSE i \in hits : \A j \in hits : i >= j

\* the position read_resource's scan stops at, 0 when no entry matches
ResourceIndex(registry, uri) ==
    LET hits == {i \in 1..Len(registry) : UriMatches(registry[i].uri, uri)}
    IN IF hits = {} THEN 0
       ELSE CHOOSE i \in hits : \A j \in hits : i <= j

\* read_resource: the first entry whose uri matches, or the error
read_resource(registry, uri) ==
    LET i == ResourceIndex(registry, uri)
    IN IF i = 0
       THEN [key |-> "error", error |-> "Resource not found"]
       ELSE LET resource == registry[i]
            IN [key |-> "contents",
                contents |-> <<[uri |-> resource.uri,
                                mimeType |-> resource.mimeType,
                                text |-> resource.content]>>]

\* the element of list_resources for one entry
ResourceSummary(r) ==
    [uri |-> r.uri, name |-> r.name, mimeType |-> r.mimeType,
     description |-> r.description]

list_resources(registry) ==
    [key |-> "resources",
     resources |-> [i \in 1..Len(registry) |-> ResourceSummary(registry[i])]]

\* ToolSummary handing out the entry itself
ToolSummaryWhole(t) == t

\* the element of list_tools for one entry
ToolSummary(t) ==
    [name |-> t.name, description |-> t.description, inputSchema |-> t.inputSchema]

list_tools(registry) ==
    [key |-> "tools",
     tools |-> [i \in 1..Len(registry) |-> ToolSummary(registry[i])]]

\* MatchIndex with the scan keeping the last entry of the name
MatchIndexLast(registry, tool_name) ==
    LET hits == {i \in 1..Len(registry) : registry[i].name = tool_name}
    IN IF hits = {} THEN 0
       ELSE CHOOSE i \in hits : \A j \in hits : i >= j

\* the position call_tool's scan stops at, 0 when no entry has the name
MatchIndex(registry, tool_name) ==
    LET hits == {i \in 1..Len(registry) : registry[i].name = tool_name}
    IN IF hits = {} THEN 0
       ELSE CHOOSE i \in hits : \A j \in hits : i <= j

\* the handler call_tool awaits, "" when it awaits none
ResolvedHandler(registry, tool_name) ==
    LET i == MatchIndex(registry, tool_name)
    IN IF i = 0 THEN "" ELSE registry[i].handler

\* what call_tool returns for the outcome of the awaited handler
HandlerEnvelope(result) ==
    IF result.raised THEN [key |-> "error", error |-> <<result.exc>>]
    ELSE [key |-> "content", text |-> result.value]

call_tool(registry, tool_name, arguments) ==
    LET handler == ResolvedHandler(registry, tool_name)
    IN IF handler = "" THEN [key |-> "error", error |-> <<"Tool not found">>]
       ELSE HandlerEnvelope(ApplyHandler(handler, arguments))

\* Suspends with every handler giving up control while it is awaited
SuspendsAlways(handler) == TRUE

\* whether the coroutine of a handler gives up control to the event loop
\* before it returns: none of the three has an await in its body
Suspends(handler) == FALSE

(***************************************************************************)
(* State.                                                                  *)
(*  run_agent: pc is the position in the function ("while": the loop       *)
(*  test, "create": the call of the model boundary, "dispatch": the for    *)
(*  loop over message.tool_calls, "after": the statement after the loop,   *)
(*  "done": returned); pending is the rest of message.tool_calls; printed  *)
(*  is the sequence of outcome lines written to the console.  modelCalls   *)
(*  and handlerCalls are history variables: the calls made to              *)
(*  client.chat.completions.create and the tool functions entered.         *)
(*  SimpleMCPServer: tools is self.tools; lastOp records the last method   *)
(*  call and what it returned; registeredAs is a history variable, the     *)
(*  handler each name was first registered with.                           *)
(*  sent is the messages argument of the last call of the model boundary. *)
(*  resources is self.resources; active is the call_tool that has looked   *)
(*  up its handler and not yet returned.                                   *)
(*  Direct dispatch of one request: request, agentOut, mcpOut.             *)
(*  Two calls of run_agent side by side: sessions, weather_store.          *)
(***************************************************************************)
VARIABLES pc, iteration, max_iterations, messages, pending, printed,
          modelCalls, handlerCalls, sent,
          tools, resources, lastOp, registeredAs, active,
          request, agentOut, mcpOut,
          sessions, weather_store

agentVars == <<pc, iteration, max_iterations, messages, pending, printed,
               modelCalls, handlerCalls, sent>>
mcpVars == <<tools, resources, lastOp, registeredAs, active>>
directVars == <<request, agentOut, mcpOut>>
pairVars == <<sessions, weather_store>>
vars == <<agentVars, mcpVars, directVars, pairVars>>

NoOp == [op |-> "none"]
NoCall == [phase |-> "none"]
NotRun == [handler |-> "", result |-> [raised |-> FALSE, value |-> None]]
NoRequest == [id |-> 0, name |-> "", json |-> "ok", args |-> NoArgs]

AgentIdle ==
    /\ pc = "idle" /\ iteration = 0 /\ max_iterations = 0
    /\ messages = <<>> /\ pending = <<>> /\ printed = <<>>
    /\ modelCalls = 0 /\ handlerCalls = <<>> /\ sent = <<>>
McpIdle ==
    /\ tools = <<>> /\ resources = <<>>
    /\ lastOp = NoOp /\ registeredAs = NoArgs /\ active = NoCall
DirectIdle == request = NoRequest /\ agentOut = NotRun /\ mcpOut = NoOp
PairIdle == sessions = <<>> /\ weather_store = NoArgs

(***************************************************************************)
(* The tool calls a model response names in a session: one of each kind    *)
(* of request the dispatcher tells apart.                                  *)
(***************************************************************************)
SessionCalls ==
    { [name |-> "calculator", json |-> "ok",
       args |-> [operation |-> Str("add"), a |-> Num(1), b |-> Num(2)]],
      [name |-> "calculator", json |-> "ok",
       args |-> [operation |-> Str("add"), a |-> Num(1)]],
      [name |-> "calculator", json |-> "ok",
       args |-> [operation |-> Str("add"), a |-> Num(0), b |-> Num(0 - 1)]],
      [name |-> "get_weather", json |-> "ok",
       args |-> [location |-> Str("Paris"), unit |-> Str("kelvin")]],
      [name |-> "subtract", json |-> "ok",
       args |-> [a |-> Num(2), b |-> Num(1)]],
      [name |-> "subtract", json |-> "malformed", args |-> NoArgs] }

\* the tool calls named by the assistant messages of a transcript
RECURSIVE ToolCallsNamed(_)
ToolCallsNamed(msgs) ==
    IF msgs = <<>> THEN 0
    ELSE (IF Head(msgs).role = "assistant" THEN Len(Head(msgs).tool_calls) ELSE 0)
         + ToolCallsNamed(Tail(msgs))

\* the responses with tool calls the model boundary can give: the calls
\* get the ids first, first + 1, ...
ToolBatches(first, room) ==
    UNION { { [i \in 1..n |-> [id |-> first + i - 1, name |-> b[i].name,
                               json |-> b[i].json, args |-> b[i].args]]
              : b \in [1..n -> SessionCalls] }
            : n \in 1..(IF room < MaxBatch THEN room ELSE MaxBatch) }

(***************************************************************************)
(* openai_agent.py: run_agent, from `iteration = 0` to the return.         *)
(***************************************************************************)
InitAgent ==
    /\ pc = "while"
    /\ iteration = 0
    /\ max_iterations \in 0..MaxCeiling
    /\ messages = <<[role |-> "system"], [role |-> "user"]>>
    /\ pending = <<>>
    /\ printed = <<>>
    /\ modelCalls = 0
    /\ handlerCalls = <<>>
    /\ sent = <<>>

\* iteration += 1
NextIterationTwice(i) == i + 2

NextIteration(i) == i + 1

\* the messages= argument of client.chat.completions.create
CreateMessagesLatest(msgs) == <<msgs[Len(msgs)]>>

CreateMessages(msgs) == msgs

\* messages.append(turn)
AppendTurnReplacing(msgs, turn) == [msgs EXCEPT ![Len(msgs)] = turn]

AppendTurn(msgs, turn) == Append(msgs, turn)

\* the tool call the for loop takes next from those not yet dispatched
NextToolCallLast(calls) == calls[Len(calls)]

NextToolCall(calls) == Head(calls)

\* where `break` after the final answer leads: to the statement after the loop
AfterAnswerContinue == "while"

AfterAnswer == "after"

\* LoopCondition with the ceiling itself still admitted
LoopConditionInclusive(i, ceiling) == i <= ceiling

\* the condition of the while loop
LoopCondition(i, ceiling) == i < ceiling

\* the condition of the report after the loop
CeilingReported(i, ceiling) == i >= ceiling

\* while iteration < max_iterations: iteration += 1
WhileTest ==
    /\ pc = "while"
    /\ IF LoopCondition(iteration, max_iterations)
       THEN iteration' = NextIteration(iteration) /\ pc' = "create"
       ELSE iteration' = iteration /\ pc' = "after"
    /\ UNCHANGED <<max_iterations, messages, pending, printed, modelCalls,
                   handlerCalls, sent>>
    /\ UNCHANGED <<mcpVars, directVars, pairVars>>

\* the model boundary answers: message.tool_calls is empty, break
ModelAnswers ==
    /\ pc = "create"
    /\ modelCalls' = modelCalls + 1
    /\ sent' = CreateMessages(messages)
    /\ messages' = AppendTurn(messages, [role |-> "assistant", content |-> "answer",
                                         tool_calls |-> <<>>])
    /\ printed' = Append(printed, [line |-> "FinalAnswer", detail |-> "answer"])
    /\ pc' = AfterAnswer
    /\ UNCHANGED <<iteration, max_iterations, pending, handlerCalls>>
    /\ UNCHANGED <<mcpVars, directVars, pairVars>>

\* the model boundary names tool calls: the for loop starts
ModelRequestsTools ==
    /\ pc = "create"
    /\ \E batch \in ToolBatches(ToolCallsNamed(messages) + 1,
                                MaxToolCalls - ToolCallsNamed(messages)) :
          /\ messages' = AppendTurn(messages, [role |-> "assistant", content |-> "",
                                               tool_calls |-> batch])
          /\ pending' = batch
    /\ modelCalls' = modelCalls + 1
    /\ sent' = CreateMessages(messages)
    /\ pc' = "dispatch"
    /\ UNCHANGED <<iteration, max_iterations, printed, handlerCalls>>
    /\ UNCHANGED <<mcpVars, directVars, pairVars>>

\* the call of the model boundary raises: except Exception, break
ModelFails ==
    /\ pc = "create"
    /\ modelCalls' = modelCalls + 1
    /\ sent' = CreateMessages(messages)
    /\ printed' = Append(printed, [line |-> "Error", detail |-> "APIError"])
    /\ pc' = "after"
    /\ UNCHANGED <<iteration, max_iterations, messages, pending, handlerCalls>>
    /\ UNCHANGED <<mcpVars, directVars, pairVars>>

\* one pass of `for tool_call in message.tool_calls`: the result is
\* appended as a tool message, or the exception of execute_tool_call
\* reaches the except clause of the loop body, which breaks
DispatchToolCall ==
    /\ pc = "dispatch"
    /\ pending # <<>>
    /\ LET tool_call == NextToolCall(pending)
           result == execute_tool_call(tool_call)
           entered == HandlerEntered(tool_call)
       IN /\ handlerCalls' = IF entered = "" THEN handlerCalls
                             ELSE Append(handlerCalls,
                                         [id |-> tool_call.id, handler |-> entered])
          /\ IF result.raised
             THEN /\ printed' = Append(printed, [line |-> "Error",
                                                 detail |-> result.exc])
                  /\ pc' = "after"
                  /\ UNCHANGED <<messages, pending>>
             ELSE /\ messages' = AppendTurn(messages,
                                            [role |-> "tool",
                                             tool_call_id |-> tool_call.id,
                                             name |-> tool_call.name,
                                             content |-> result.value])
                  /\ pending' = Tail(pending)
                  /\ pc' = IF Tail(pending) = <<>> THEN "while" ELSE "dispatch"
                  /\ UNCHANGED printed
    /\ UNCHANGED <<iteration, max_iterations, modelCalls, sent>>
    /\ UNCHANGED <<mcpVars, directVars, pairVars>>

\* if iteration >= max_iterations: print "Reached maximum iterations"
AfterLoop ==
    /\ pc = "after"
    /\ printed' = IF CeilingReported(iteration, max_iterations)
                  THEN Append(printed, [line |-> "MaxIterations", detail |-> ""])
                  ELSE printed
    /\ pc' = "done"
    /\ UNCHANGED <<iteration, max_iterations, messages, pending, modelCalls,
                   handlerCalls, sent>>
    /\ UNCHANGED <<mcpVars, directVars, pairVars>>

Next ==
    \/ WhileTest
    \/ ModelAnswers
    \/ ModelRequestsTools
    \/ ModelFails
    \/ DispatchToolCall
    \/ AfterLoop

(***************************************************************************)
(* Two more behaviours of the model boundary: a response that carries both *)
(* text and tool calls, and a call that never returns.  create is called   *)
(* without a timeout argument, and nothing in run_agent limits the wait.   *)
(***************************************************************************)
\* message.content is text and message.tool_calls is not empty: the test
\* `if message.tool_calls` looks at the tool calls only
ModelAnswersAndRequestsTools ==
    /\ pc = "create"
    /\ \E batch \in ToolBatches(ToolCallsNamed(messages) + 1,
                                MaxToolCalls - ToolCallsNamed(messages)) :
          /\ messages' = AppendTurn(messages, [role |-> "assistant",
                                               content |-> "answer",
                                               tool_calls |-> batch])
          /\ pending' = batch
    /\ modelCalls' = modelCalls + 1
    /\ sent' = CreateMessages(messages)
    /\ pc' = "dispatch"
    /\ UNCHANGED <<iteration, max_iterations, printed, handlerCalls>>
    /\ UNCHANGED <<mcpVars, directVars, pairVars>>

\* client.chat.completions.create does not return: run_agent stays in the
\* call
ModelHangs ==
    /\ pc = "create"
    /\ modelCalls' = modelCalls + 1
    /\ sent' = CreateMessages(messages)
    /\ pc' = "blocked"
    /\ UNCHANGED <<iteration, max_iterations, messages, pending, printed,
                   handlerCalls>>
    /\ UNCHANGED <<mcpVars, directVars, pairVars>>

NextEdge ==
    \/ WhileTest
    \/ ModelAnswers
    \/ ModelRequestsTools
    \/ ModelAnswersAndRequestsTools
    \/ ModelFails
    \/ ModelHangs
    \/ DispatchToolCall
    \/ AfterLoop

(***************************************************************************)
(* mcp_server_example.py: a SimpleMCPServer whose methods are called in    *)
(* any order.  The class does not separate a setup phase: register_tool    *)
(* may follow call_tool.                                                   *)
(***************************************************************************)
ToolNames == {"calculator", "get_time", "echo"}

\* the argument mappings given to call_tool
McpArguments ==
    { NoArgs,
      [message |-> Str("Hello, MCP!")],
      [operation |-> Str("add"), a |-> Num(1), b |-> Num(2)],
      [operation |-> Str("divide"), a |-> Num(1), b |-> Num(0)],
      [operation |-> Str("add"), a |-> Str("abc"), b |-> Num(2)] }

\* the descriptions main registers the tools with
ToolDescriptions ==
    ("calculator" :> "Perform basic arithmetic operations")
    @@ ("get_time" :> "Get the current time")
    @@ ("echo" :> "Echo back a message")

InitMcp ==
    /\ tools = <<>>
    /\ resources = <<>>
    /\ lastOp = NoOp
    /\ registeredAs = NoArgs
    /\ active = NoCall
    /\ AgentIdle /\ DirectIdle /\ PairIdle

\* server.register_tool(name, description, handler)
RegisterToolAs(name, handler) ==
    /\ Len(tools) < MaxTools
    /\ tools' = register_tool(tools, name, ToolDescriptions[name], handler)
    /\ lastOp' = [op |-> "register_tool", name |-> name,
                  handler |-> handler,
                  present |-> MatchIndex(tools, name) # 0,
                  raised |-> FALSE]
    /\ registeredAs' = IF name \in DOMAIN registeredAs THEN registeredAs
                       ELSE registeredAs @@ (name :> handler)
    /\ UNCHANGED <<resources, active>>
    /\ UNCHANGED <<agentVars, directVars, pairVars>>

RegisterTool ==
    \E name \in ToolNames, handler \in Handlers : RegisterToolAs(name, handler)

\* await server.call_tool(tool_name, arguments)
CallToolWith(tool_name, arguments) ==
    /\ lastOp' = [op |-> "call_tool", name |-> tool_name,
                  handler |-> ResolvedHandler(tools, tool_name),
                  envelope |-> call_tool(tools, tool_name, arguments)]
    /\ UNCHANGED <<tools, resources, registeredAs, active>>
    /\ UNCHANGED <<agentVars, directVars, pairVars>>

CallTool ==
    \E tool_name \in ToolNames \cup {"subtract"}, arguments \in McpArguments :
       CallToolWith(tool_name, arguments)

NextMcp ==
    \/ RegisterTool
    \/ CallTool

(***************************************************************************)
(* The resources of SimpleMCPServer and its two listings: resources is     *)
(* self.resources.  Resources are registered under the uris of main(),     *)
(* with one of two contents, so that one uri can be registered twice with  *)
(* different contents; they are read under these uris and under uris that  *)
(* differ from them in letter case or by being shorter.                    *)
(***************************************************************************)
\* the name and mime type main registers a uri with
ResourceTable ==
    ("resource://documentation"
        :> [name |-> "API Documentation", mime_type |-> "text/markdown"])
    @@ ("resource://config"
        :> [name |-> "Configuration", mime_type |-> "application/json"])

ResourceContents == {"# API Documentation", "{env: production, debug: false}"}

\* the uris given to read_resource
ReadUris == DOMAIN CaseFolded

\* the registrations of tools: those of main for calculator and echo, and
\* calculator once more with another handler
DemoRegistrations ==
    { [name |-> "calculator", handler |-> "calculator_tool"],
      [name |-> "calculator", handler |-> "echo_tool"],
      [name |-> "echo", handler |-> "echo_tool"] }

\* the calls of tools: a registered name, one registered twice, an unknown
DemoCalls ==
    { [name |-> n, arguments |-> [message |-> Str("Hello, MCP!")]] :
        n \in {"calculator", "echo", "subtract"} }

InitRes ==
    /\ tools = <<>>
    /\ resources = <<>>
    /\ lastOp = NoOp
    /\ registeredAs = NoArgs
    /\ active = NoCall
    /\ AgentIdle /\ DirectIdle /\ PairIdle

\* server.register_resource(uri, name, mime_type, content)
RegisterResource ==
    /\ Len(resources) < MaxResources
    /\ \E uri \in DOMAIN ResourceTable, content \in ResourceContents :
          /\ resources' = register_resource(resources, uri,
                                            ResourceTable[uri].name,
                                            ResourceTable[uri].mime_type,
                                            content)
          /\ lastOp' = [op |-> "register_resource", uri |-> uri]
    /\ UNCHANGED <<tools, registeredAs, active>>
    /\ UNCHANGED <<agentVars, directVars, pairVars>>

\* server.register_tool(name, description, handler) as main calls it
RegisterDemoTool ==
    \E r \in DemoRegistrations : RegisterToolAs(r.name, r.handler)

\* await server.call_tool(tool_name, arguments)
CallDemoTool ==
    \E c \in DemoCalls : CallToolWith(c.name, c.arguments)

\* read_resource taking the entry it returns out of the registry
ReadResourceConsuming ==
    /\ \E uri \in ReadUris :
          /\ lastOp' = [op |-> "read_resource", uri |-> uri,
                        result |-> read_resource(resources, uri)]
          /\ resources' = SelectSeq(resources, LAMBDA r : r.uri # uri)
    /\ UNCHANGED <<tools, registeredAs, active>>
    /\ UNCHANGED <<agentVars, directVars, pairVars>>

\* await server.read_resource(uri)
ReadResource ==
    /\ \E uri \in ReadUris :
          lastOp' = [op |-> "read_resource", uri |-> uri,
                     result |-> read_resource(resources, uri)]
    /\ UNCHANGED <<tools, resources, registeredAs, active>>
    /\ UNCHANGED <<agentVars, directVars, pairVars>>

\* await server.list_resources()
ListResources ==
    /\ lastOp' = [op |-> "list_resources", result |-> list_resources(resources)]
    /\ UNCHANGED <<tools, resources, registeredAs, active>>
    /\ UNCHANGED <<agentVars, directVars, pairVars>>

\* await server.list_tools()
ListTools ==
    /\ lastOp' = [op |-> "list_tools", result |-> list_tools(tools)]
    /\ UNCHANGED <<tools, resources, registeredAs, active>>
    /\ UNCHANGED <<agentVars, directVars, pairVars>>

NextRes ==
    \/ RegisterResource
    \/ RegisterDemoTool
    \/ ReadResource
    \/ ListResources
    \/ ListTools
    \/ CallDemoTool

(***************************************************************************)
(* call_tool taken apart at its await: the lookup up to the call of the    *)
(* handler, and the return of the handler with the envelope.  The methods  *)
(* run on one event loop: another coroutine, such as one that registers a  *)
(* tool, runs between the two only if the awaited handler suspends.        *)
(***************************************************************************)
InitDispatch ==
    /\ tools = <<>>
    /\ resources = <<>>
    /\ lastOp = NoOp
    /\ registeredAs = NoArgs
    /\ active = NoCall
    /\ AgentIdle /\ DirectIdle /\ PairIdle

\* for tool in self.tools: if tool["name"] == tool_name, up to the await;
\* the error of an unknown name is returned at once
LookupTool ==
    /\ active = NoCall
    /\ \E c \in DemoCalls :
          LET handler == ResolvedHandler(tools, c.name)
          IN IF handler = ""
             THEN /\ lastOp' = [op |-> "call_tool", name |-> c.name,
                                handler |-> "",
                                envelope |-> call_tool(tools, c.name, c.arguments)]
                  /\ UNCHANGED active
             ELSE /\ active' = [phase |-> "awaiting", name |-> c.name,
                                arguments |-> c.arguments, handler |-> handler]
                  /\ UNCHANGED lastOp
    /\ UNCHANGED <<tools, resources, registeredAs>>
    /\ UNCHANGED <<agentVars, directVars, pairVars>>

\* the awaited handler returns or raises: call_tool returns the envelope
HandlerReturns ==
    /\ active # NoCall
    /\ lastOp' = [op |-> "call_tool", name |-> active.name,
                  handler |-> active.handler,
                  envelope |-> HandlerEnvelope(ApplyHandler(active.handler,
                                                            active.arguments))]
    /\ active' = NoCall
    /\ UNCHANGED <<tools, resources, registeredAs>>
    /\ UNCHANGED <<agentVars, directVars, pairVars>>

\* another coroutine calls register_tool: when no call_tool is under way,
\* or when the handler it awaits has suspended
RegisterFromOtherTask ==
    /\ active = NoCall \/ Suspends(active.handler)
    /\ RegisterDemoTool

NextDispatch ==
    \/ LookupTool
    \/ HandlerReturns
    \/ RegisterFromOtherTask

(***************************************************************************)
(* One request given to each dispatcher: execute_tool_call of the agent    *)
(* and call_tool of the server that main() of mcp_server_example.py sets   *)
(* up.                                                                     *)
(***************************************************************************)
Numbers == { Num(n) : n \in (0 - MaxNum)..MaxNum }
Operations == { Str(o) : o \in {"add", "subtract", "multiply", "divide",
                                "power", "sqrt", "modulo"} }
Operands == Numbers \cup {Str("27"), Str("abc")}

\* every mapping of the keys of `choices` to one of the values given for it
Mappings(choices) ==
    UNION { { f \in [D -> UNION { choices[k] : k \in D }] :
                \A k \in D : f[k] \in choices[k] }
            : D \in SUBSET DOMAIN choices }

CalculatorArgs ==
    Mappings([operation |-> Operations, a |-> Operands, b |-> Operands])
    \cup { [operation |-> Str("add"), a |-> Num(1), b |-> Num(2), c |-> Num(0)] }

WeatherArgs ==
    Mappings([location |-> {Str("Paris"), Str("london"), Str("Atlantis"), Num(1)},
              unit |-> {Str("celsius"), Str("fahrenheit"), Str("kelvin")}])
    \cup { [location |-> Str("Paris"), city |-> Str("london")] }

SearchArgs ==
    Mappings([query |-> {Str("python"), Str("What is an AI agent?"),
                         Str("weather"), Num(1)}])

EchoArgs == Mappings([message |-> {Str("Hello, MCP!"), Num(1)}])

RequestNames == TOOL_FUNCTIONS \cup ToolNames \cup {"subtract"}

Requests ==
    { [id |-> 1, name |-> n, json |-> "ok", args |-> a] :
        n \in RequestNames,
        a \in CalculatorArgs \cup WeatherArgs \cup SearchArgs \cup EchoArgs }
    \cup { [id |-> 1, name |-> n, json |-> "malformed", args |-> NoArgs] :
             n \in RequestNames }

\* the registry main() builds
DemoRegistry ==
    register_tool(
        register_tool(
            register_tool(<<>>, "calculator", ToolDescriptions["calculator"],
                          "calculator_tool"),
            "get_time", ToolDescriptions["get_time"], "get_time_tool"),
        "echo", ToolDescriptions["echo"], "echo_tool")

InitDirect ==
    /\ request \in Requests
    /\ agentOut = NotRun
    /\ mcpOut = NoOp
    /\ AgentIdle /\ McpIdle /\ PairIdle

\* result = execute_tool_call(tool_call)
DirectExecute ==
    /\ agentOut = NotRun
    /\ agentOut' = [handler |-> HandlerEntered(request),
                    result |-> execute_tool_call(request)]
    /\ UNCHANGED <<request, mcpOut>>
    /\ UNCHANGED <<agentVars, mcpVars, pairVars>>

\* result = await server.call_tool(name, arguments); the arguments reach
\* call_tool as a mapping, so only decoded requests are given to it
DirectCallTool ==
    /\ mcpOut = NoOp
    /\ request.json = "ok"
    /\ mcpOut' = [op |-> "call_tool", name |-> request.name,
                  handler |-> ResolvedHandler(DemoRegistry, request.name),
                  envelope |-> call_tool(DemoRegistry, request.name, request.args)]
    /\ UNCHANGED <<request, agentOut>>
    /\ UNCHANGED <<agentVars, mcpVars, pairVars>>

NextDirect ==
    \/ DirectExecute
    \/ DirectCallTool

(***************************************************************************)
(* Two calls of run_agent side by side, their steps in any order.  Each    *)
(* call has its own iteration, messages and position (locals of the        *)
(* function); sessions[s] holds them.  The tool functions are shared.      *)
(* weather_store is the dict get_weather works on: the function builds it  *)
(* anew at each call, takes the entry of the location and writes the       *)
(* converted temperature and the unit into that entry.                     *)
(***************************************************************************)
Sessions == {1, 2}

\* the dict literal bound to weather_data at the start of get_weather
WeatherLiteral ==
    [k \in DOMAIN weather_data |->
        [temp |-> Num(weather_data[k].temp),
         condition |-> weather_data[k].condition,
         humidity |-> weather_data[k].humidity]]

\* WeatherDataAtCall with the dict of the previous call kept
WeatherDataKept(store) == IF store = NoArgs THEN WeatherLiteral ELSE store

\* the dict get_weather starts from, given the one its last call left
WeatherDataAtCall(store) == WeatherLiteral

\* temp * 9/5 + 32
ToFahrenheit(t) ==
    IF IsNum(t) THEN Quot(t.n * 9 + 32 * 5, 5)
    ELSE Quot(t.n * 9 + 32 * 5 * t.d, 5 * t.d)

\* get_weather on the dict `store`: what it returns or raises, and the dict
\* after the writes to data["temp"] and data["unit"]
GetWeatherIn(store, args) ==
    IF ~Binds(Signature("get_weather"), args)
    THEN [result |-> Raise("TypeError"), store |-> store]
    ELSE LET location == args["location"]
             unit == IF "unit" \in DOMAIN args THEN args["unit"] ELSE Str("celsius")
         IN IF ~IsStr(location)
            THEN [result |-> Raise("AttributeError"), store |-> store]
            ELSE LET location_lower == Lower(location.s)
                     known == location_lower \in DOMAIN store
                     data == IF known THEN store[location_lower]
                             ELSE [temp |-> Num(weather_default.temp),
                                   condition |-> weather_default.condition,
                                   humidity |-> weather_default.humidity]
                     fahrenheit == unit = Str("fahrenheit")
                     temp == IF fahrenheit THEN ToFahrenheit(data.temp) ELSE data.temp
                     written == [temp |-> temp,
                                 condition |-> data.condition,
                                 humidity |-> data.humidity,
                                 unit |-> IF fahrenheit THEN "F" ELSE "C"]
                 IN [result |-> Return([location |-> location,
                                        temp |-> written.temp,
                                        condition |-> written.condition,
                                        humidity |-> written.humidity,
                                        unit |-> written.unit,
                                        timestamp |-> "now"]),
                     store |-> IF known
                               THEN [store EXCEPT ![location_lower] = written]
                               ELSE store]

\* execute_tool_call with get_weather working on the dict: the result and
\* the dict afterwards
ExecuteIn(store, tool_call) ==
    IF tool_call.json # "malformed" /\ tool_call.name = "get_weather"
    THEN LET g == GetWeatherIn(WeatherDataAtCall(store), tool_call.args)
         IN [result |-> IF g.result.raised THEN g.result
                        ELSE Return([key |-> "result", result |-> g.result.value]),
             store |-> g.store]
    ELSE [result |-> execute_tool_call(tool_call), store |-> store]

\* the tool calls the model boundary names in the two sessions
PairCalls ==
    { [name |-> "get_weather", json |-> "ok",
       args |-> [location |-> Str("Paris"), unit |-> Str("fahrenheit")]],
      [name |-> "get_weather", json |-> "ok",
       args |-> [location |-> Str("Paris"), unit |-> Str("celsius")]],
      [name |-> "calculator", json |-> "ok",
       args |-> [operation |-> Str("add"), a |-> Num(0), b |-> Num(0 - 1)]] }

InitPair ==
    /\ sessions = [s \in Sessions |->
                     [pc |-> "while", iteration |-> 0,
                      max_iterations |-> MaxPairCeiling,
                      messages |-> <<[role |-> "system"], [role |-> "user"]>>,
                      pending |-> <<>>, printed |-> <<>>, modelCalls |-> 0]]
    /\ weather_store = NoArgs
    /\ AgentIdle /\ McpIdle /\ DirectIdle

\* while iteration < max_iterations: iteration += 1
PairWhileTest(s) ==
    LET me == sessions[s]
    IN /\ me.pc = "while"
       /\ sessions' = [sessions EXCEPT ![s] =
             IF LoopCondition(me.iteration, me.max_iterations)
             THEN [me EXCEPT !.iteration = NextIteration(me.iteration),
                             !.pc = "create"]
             ELSE [me EXCEPT !.pc = "after"]]
       /\ UNCHANGED weather_store
       /\ UNCHANGED <<agentVars, mcpVars, directVars>>

\* the model boundary answers: break
PairModelAnswers(s) ==
    LET me == sessions[s]
    IN /\ me.pc = "create"
       /\ sessions' = [sessions EXCEPT ![s] =
             [me EXCEPT !.modelCalls = me.modelCalls + 1,
                        !.messages = AppendTurn(me.messages,
                                                [role |-> "assistant",
                                                 content |-> "answer",
                                                 tool_calls |-> <<>>]),
                        !.printed = Append(me.printed, [line |-> "FinalAnswer",
                                                        detail |-> "answer"]),
                        !.pc = AfterAnswer]]
       /\ UNCHANGED weather_store
       /\ UNCHANGED <<agentVars, mcpVars, directVars>>

\* the model boundary names one tool call
PairModelRequestsTool(s) ==
    LET me == sessions[s]
    IN /\ me.pc = "create"
       /\ \E c \in PairCalls :
             LET batch == <<[id |-> ToolCallsNamed(me.messages) + 1,
                             name |-> c.name, json |-> c.json, args |-> c.args]>>
             IN sessions' = [sessions EXCEPT ![s] =
                   [me EXCEPT !.modelCalls = me.modelCalls + 1,
                              !.messages = AppendTurn(me.messages,
                                                      [role |-> "assistant",
                                                       content |-> "",
                                                       tool_calls |-> batch]),
                              !.pending = batch,
                              !.pc = "dispatch"]]
       /\ UNCHANGED weather_store
       /\ UNCHANGED <<agentVars, mcpVars, directVars>>

\* the call of the model boundary raises: except Exception, break
PairModelFails(s) ==
    LET me == sessions[s]
    IN /\ me.pc = "create"
       /\ sessions' = [sessions EXCEPT ![s] =
             [me EXCEPT !.modelCalls = me.modelCalls + 1,
                        !.printed = Append(me.printed, [line |-> "Error",
                                                        detail |-> "APIError"]),
                        !.pc = "after"]]
       /\ UNCHANGED weather_store
       /\ UNCHANGED <<agentVars, mcpVars, directVars>>

\* one pass of the for loop over message.tool_calls
PairDispatchToolCall(s) ==
    LET me == sessions[s]
    IN /\ me.pc = "dispatch"
       /\ me.pending # <<>>
       /\ LET tool_call == NextToolCall(me.pending)
              run == ExecuteIn(weather_store, tool_call)
          IN /\ weather_store' = run.store
             /\ sessions' = [sessions EXCEPT ![s] =
                   IF run.result.raised
                   THEN [me EXCEPT !.printed = Append(me.printed,
                                                      [line |-> "Error",
                                                       detail |-> run.result.exc]),
                                   !.pc = "after"]
                   ELSE [me EXCEPT !.messages = AppendTurn(me.messages,
                                        [role |-> "tool",
                                         tool_call_id |-> tool_call.id,
                                         name |-> tool_call.name,
                                         content |-> run.result.value]),
                                   !.pending = Tail(me.pending),
                                   !.pc = IF Tail(me.pending) = <<>>
                                          THEN "while" ELSE "dispatch"]]
       /\ UNCHANGED <<agentVars, mcpVars, directVars>>

\* if iteration >= max_iterations: print "Reached maximum iterations"
PairAfterLoop(s) ==
    LET me == sessions[s]
    IN /\ me.pc = "after"
       /\ sessions' = [sessions EXCEPT ![s] =
             [me EXCEPT !.printed = IF CeilingReported(me.iteration,
                                                       me.max_iterations)
                                    THEN Append(me.printed,
                                                [line |-> "MaxIterations",
                                                 detail |-> ""])
                                    ELSE me.printed,
                        !.pc = "done"]]
       /\ UNCHANGED weather_store
       /\ UNCHANGED <<agentVars, mcpVars, directVars>>

NextPair ==
    \E s \in Sessions :
        \/ PairWhileTest(s)
        \/ PairModelAnswers(s)
        \/ PairModelRequestsTool(s)
        \/ PairModelFails(s)
        \/ PairDispatchToolCall(s)
        \/ PairAfterLoop(s)

Init == InitAgent /\ McpIdle /\ DirectIdle /\ PairIdle
Spec == Init /\ [][Next]_vars
SpecMcp == InitMcp /\ [][NextMcp]_vars
SpecDirect == InitDirect /\ [][NextDirect]_vars
SpecRes == InitRes /\ [][NextRes]_vars
SpecDispatch == InitDispatch /\ [][NextDispatch]_vars
SpecEdge == Init /\ [][NextEdge]_vars
FairSpecEdge == SpecEdge /\ WF_vars(NextEdge)
SpecPair == InitPair /\ [][NextPair]_vars
\* run_agent is sequential code: a step that can be taken is taken
FairSpec == Spec /\ WF_vars(Next)

(***************************************************************************)
(* The outcomes run_agent reports, and the schemas it advertises.          *)
(***************************************************************************)
Printed(line) == \E i \in 1..Len(printed) : printed[i].line = line
\* "Final Answer" was printed
Answered == Printed("FinalAnswer")
\* "Error: ..." was printed
Failed == Printed("Error")
\* "Reached maximum iterations" was printed
Aborted == Printed("MaxIterations")

\* the responses of the model boundary that named tool calls
RECURSIVE ToolResponses(_)
ToolResponses(msgs) ==
    IF msgs = <<>> THEN 0
    ELSE (IF Head(msgs).role = "assistant" /\ Head(msgs).tool_calls # <<>>
          THEN 1 ELSE 0)
         + ToolResponses(Tail(msgs))

\* the tool-result turn of the tool call with this id is in the transcript
HasToolResult(id) ==
    \E m \in 1..Len(messages) :
        messages[m].role = "tool" /\ messages[m].tool_call_id = id

\* the `parameters` of the entries of `tools`
AgentSchema(name) ==
    CASE name = "calculator" ->
             [properties |-> [operation |-> "string", a |-> "number", b |-> "number"],
              required |-> {"operation", "a"},
              enum |-> [operation |-> {"add", "subtract", "multiply", "divide",
                                       "power", "sqrt"}]]
      [] name = "get_weather" ->
             [properties |-> [location |-> "string", unit |-> "string"],
              required |-> {"location"},
              enum |-> [unit |-> {"celsius", "fahrenheit"}]]
      [] name = "search_knowledge_base" ->
             [properties |-> [query |-> "string"],
              required |-> {"query"},
              enum |-> NoArgs]

\* every required parameter is present and no other name than the declared
NamesConform(schema, args) ==
    /\ schema.required \subseteq DOMAIN args
    /\ DOMAIN args \subseteq DOMAIN schema.properties

\* every present value has the declared JSON type
TypesConform(schema, args) ==
    \A k \in DOMAIN args \cap DOMAIN schema.properties :
        IF schema.properties[k] = "number" THEN IsNum(args[k]) ELSE IsStr(args[k])

\* every present value of a parameter with an enum is one of its values
EnumsConform(schema, args) ==
    \A k \in DOMAIN args \cap DOMAIN schema.enum :
        IsStr(args[k]) /\ args[k].s \in schema.enum[k]

\* execute_tool_call returned the JSON text of an {"error": ...} object
AgentFailure(out) == ~out.result.raised /\ out.result.value.key = "error"
\* execute_tool_call returned the JSON text of a tool function's result
AgentSuccess(out) == ~out.result.raised /\ out.result.value.key = "result"

\* execute_tool_call was applied to the request
AgentRan == agentOut # NotRun
\* call_tool was applied to the request
McpRan == mcpOut # NoOp

(***************************************************************************)
(* C1: in every run of the loop, for every ceiling and every behaviour of  *)
(* the model boundary (it answers, names tool calls or fails), the calls   *)
(* made to the model boundary never exceed max_iterations, and the loop    *)
(* reaches its return.                                                     *)
(***************************************************************************)
C1_BoundedCallsAndTermination ==
    [](modelCalls <= max_iterations) /\ <>(pc = "done")

\* a run that used the whole ceiling, naming tool calls, and returned
C1_Witness ==
    /\ pc = "done"
    /\ max_iterations >= 2
    /\ modelCalls = max_iterations
    /\ ToolResponses(messages) >= 1

(***************************************************************************)
(* C2: when every response of the model boundary names tool calls, the     *)
(* session ends with the ceiling reported after exactly max_iterations     *)
(* calls of the model boundary (none for max_iterations = 0).              *)
(***************************************************************************)
C2_AlwaysToolsAbortsAtCeiling ==
    (pc = "done" /\ ToolResponses(messages) = modelCalls)
        => (Aborted /\ modelCalls = max_iterations)

(***************************************************************************)
(* C3: a finished session reports exactly one of the three outcomes:       *)
(* answered, ceiling reached, failed.                                      *)
(***************************************************************************)
C3_ExactlyOneOutcome ==
    pc = "done" =>
        Cardinality({o \in {"FinalAnswer", "Error", "MaxIterations"} : Printed(o)}) = 1

(***************************************************************************)
(* C4: a tool function that raises does not end the loop: every tool       *)
(* function entered during dispatch, raising or not, has the tool-result   *)
(* turn of its tool call in the transcript.                                *)
(***************************************************************************)
C4_HandlerFaultBecomesToolResult ==
    \A k \in 1..Len(handlerCalls) : HasToolResult(handlerCalls[k].id)

(***************************************************************************)
(* C5: dispatch is total: for every request, whatever its name and         *)
(* argument payload, the dispatcher returns a result and raises nothing.   *)
(***************************************************************************)
C5_DispatchTotal ==
    /\ AgentRan => ~agentOut.result.raised
    /\ McpRan => mcpOut.envelope.key \in {"content", "error"}

(***************************************************************************)
(* C6: a request whose name is not registered gets a failure result that   *)
(* names the requested capability; no handler runs and nothing is raised.  *)
(***************************************************************************)
C6_UnknownNameFailure ==
    /\ (AgentRan /\ request.name \notin TOOL_FUNCTIONS) =>
          /\ AgentFailure(agentOut)
          /\ agentOut.result.value.error[2] = request.name
          /\ agentOut.handler = ""
    /\ (McpRan /\ MatchIndex(DemoRegistry, request.name) = 0) =>
          /\ mcpOut.envelope.key = "error"
          /\ \E i \in DOMAIN mcpOut.envelope.error :
                 mcpOut.envelope.error[i] = request.name
          /\ mcpOut.handler = ""

(***************************************************************************)
(* C7: registering under a name already in the registry fails and leaves   *)
(* the registry as it was, so no two entries of the registry share a name. *)
(***************************************************************************)
C7_DuplicateRejected ==
    /\ \A i, j \in 1..Len(tools) : tools[i].name = tools[j].name => i = j
    /\ (lastOp.op = "register_tool" /\ lastOp.present) => lastOp.raised

(***************************************************************************)
(* C8: a name registered while it was not yet present resolves to the      *)
(* handler it was registered with, whatever was registered before or is    *)
(* registered after it, and that handler is the one call_tool awaits.      *)
(***************************************************************************)
C8_LookupResolvesRegistered ==
    /\ \A n \in DOMAIN registeredAs : ResolvedHandler(tools, n) = registeredAs[n]
    /\ (lastOp.op = "call_tool" /\ lastOp.name \in DOMAIN registeredAs) =>
          lastOp.handler = registeredAs[lastOp.name]

\* call_tool of a name registered second, and registered again afterwards
\* with another handler
C8_Witness ==
    /\ lastOp.op = "call_tool"
    /\ Len(tools) >= 3
    /\ tools[1].name # lastOp.name
    /\ tools[2].name = lastOp.name
    /\ tools[3].name = lastOp.name
    /\ tools[3].handler # tools[2].handler
    /\ lastOp.handler = tools[2].handler

(***************************************************************************)
(* C9: arguments are validated before dispatch: a request that omits a     *)
(* required parameter or carries an undeclared one gets a failure result   *)
(* and no tool function runs; a tool function only ever runs on arguments  *)
(* that conform to its declared schema.                                    *)
(***************************************************************************)
C9_ValidatedBeforeDispatch ==
    (AgentRan /\ request.json = "ok" /\ request.name \in TOOL_FUNCTIONS) =>
        LET schema == AgentSchema(request.name)
        IN /\ ~NamesConform(schema, request.args) =>
                 (AgentFailure(agentOut) /\ agentOut.handler = "")
           /\ agentOut.handler # "" =>
                 /\ NamesConform(schema, request.args)
                 /\ TypesConform(schema, request.args)
                 /\ EnumsConform(schema, request.args)

(***************************************************************************)
(* C10: an argument outside the allowed values declared for its parameter  *)
(* gets a failure result, never a success.  Stated for the requests that   *)
(* otherwise conform to the schema and give every parameter of the tool    *)
(* function, so that nothing but the value is at fault.                    *)
(***************************************************************************)
C10_EnumViolationRejected ==
    (AgentRan /\ request.json = "ok" /\ request.name \in TOOL_FUNCTIONS) =>
        LET schema == AgentSchema(request.name)
        IN (/\ NamesConform(schema, request.args)
            /\ TypesConform(schema, request.args)
            /\ DOMAIN request.args = DOMAIN schema.properties
            /\ ~EnumsConform(schema, request.args)) =>
               AgentFailure(agentOut)

(***************************************************************************)
(* C11: a string-encoded number given for a numeric parameter is coerced   *)
(* to the number before the arithmetic (add of "27" and 1 is 28), and a    *)
(* non-numeric string gets a failure result; stated for add, subtract and  *)
(* multiply of the calculator of both dispatchers.                         *)
(***************************************************************************)
\* the request is a call of the calculator with every parameter, for one
\* of add, subtract, multiply, and at least one operand a string
C11_StringOperands ==
    /\ request.json = "ok"
    /\ request.name = "calculator"
    /\ DOMAIN request.args = {"operation", "a", "b"}
    /\ request.args["operation"] \in {Str("add"), Str("subtract"), Str("multiply")}
    /\ IsStr(request.args["a"]) \/ IsStr(request.args["b"])

\* a op b on the numbers the operands stand for
ReferenceResult ==
    LET x == FloatOf(request.args["a"]).value
        y == FloatOf(request.args["b"]).value
        o == request.args["operation"].s
    IN Num(CASE o = "add" -> x + y [] o = "subtract" -> x - y [] o = "multiply" -> x * y)

C11_NumericStringsCoerced ==
    LET numeric == /\ ~FloatOf(request.args["a"]).raised
                   /\ ~FloatOf(request.args["b"]).raised
    IN /\ (AgentRan /\ C11_StringOperands) =>
             IF numeric
             THEN AgentSuccess(agentOut)
                  /\ agentOut.result.value.result.result = ReferenceResult
             ELSE AgentFailure(agentOut)
       /\ (McpRan /\ C11_StringOperands) =>
             IF numeric
             THEN mcpOut.envelope.key = "content"
                  /\ mcpOut.envelope.text[5] = ReferenceResult
             ELSE mcpOut.envelope.key = "error"

(***************************************************************************)
(* C13: request ids and tool-result turns correspond one to one: whenever  *)
(* the loop is about to call the model boundary or has returned, every     *)
(* tool call named in an assistant turn has exactly one tool-result turn   *)
(* with its id, and every tool-result turn carries the id of a tool call   *)
(* named before it.                                                        *)
(***************************************************************************)
C13_ResultsMatchRequests ==
    pc \in {"while", "create", "done"} =>
        /\ \A m \in 1..Len(messages) :
              messages[m].role = "assistant" =>
                 \A k \in 1..Len(messages[m].tool_calls) :
                    Cardinality({r \in 1..Len(messages) :
                                   /\ messages[r].role = "tool"
                                   /\ messages[r].tool_call_id
                                        = messages[m].tool_calls[k].id}) = 1
        /\ \A r \in 1..Len(messages) :
              messages[r].role = "tool" =>
                 \E m \in 1..(r - 1) :
                    /\ messages[m].role = "assistant"
                    /\ \E k \in 1..Len(messages[m].tool_calls) :
                          messages[m].tool_calls[k].id = messages[r].tool_call_id

(***************************************************************************)
(* C16: when the call of the model boundary fails, the loop ends without   *)
(* another call, no turn is appended for the failed call, and the session  *)
(* reports the failure and neither an answer nor the ceiling.              *)
(***************************************************************************)
\* the call of the model boundary raised
BoundaryFailed ==
    \E i \in 1..Len(printed) :
        printed[i].line = "Error" /\ printed[i].detail = "APIError"

C16_BoundaryFailureEndsSession ==
    BoundaryFailed =>
        /\ pc \in {"after", "done"}
        /\ messages[Len(messages)].role # "assistant"
              \/ messages[Len(messages)].tool_calls # <<>>
        /\ Cardinality({m \in 1..Len(messages) : messages[m].role = "assistant"})
             = modelCalls - 1
        /\ Failed /\ ~Answered /\ ~Aborted

(***************************************************************************)
(* C17: add, subtract and multiply of the calculator succeed with a + b,   *)
(* a - b and a * b for all integers a, b of the range, in both             *)
(* dispatchers.                                                            *)
(***************************************************************************)
\* the request is a call of the calculator with every parameter, for one
\* of add, subtract, multiply on two numbers
C17_Arithmetic ==
    /\ request.json = "ok"
    /\ request.name = "calculator"
    /\ DOMAIN request.args = {"operation", "a", "b"}
    /\ request.args["operation"] \in {Str("add"), Str("subtract"), Str("multiply")}
    /\ IsNum(request.args["a"]) /\ IsNum(request.args["b"])

C17_ArithmeticResult ==
    /\ (AgentRan /\ C17_Arithmetic) =>
          /\ AgentSuccess(agentOut)
          /\ agentOut.result.value.result.result = ReferenceResult
    /\ (McpRan /\ C17_Arithmetic) =>
          /\ mcpOut.envelope.key = "content"
          /\ mcpOut.envelope.text[5] = ReferenceResult

(***************************************************************************)
(* C18: divide with b = 0 gets a failure result, not a success, from both  *)
(* dispatchers.                                                            *)
(***************************************************************************)
C18_DivisionByZeroFails ==
    LET divideByZero == /\ request.json = "ok"
                        /\ request.name = "calculator"
                        /\ DOMAIN request.args = {"operation", "a", "b"}
                        /\ request.args["operation"] = Str("divide")
                        /\ IsNum(request.args["a"])
                        /\ request.args["b"] = Num(0)
    IN /\ (AgentRan /\ divideByZero) => AgentFailure(agentOut)
       /\ (McpRan /\ divideByZero) => mcpOut.envelope.key = "error"

(***************************************************************************)
(* C12: the tool calls of one model response are dispatched in the order   *)
(* given, and their tool-result turns follow the assistant turn in that    *)
(* order, each with the result of its own call and no other turn between   *)
(* them.                                                                   *)
(***************************************************************************)
C12_ResultsInRequestOrder ==
    /\ \A m \in 1..Len(messages) :
          messages[m].role = "assistant" =>
             \A k \in 1..Len(messages[m].tool_calls) :
                m + k <= Len(messages) =>
                   /\ messages[m + k].role = "tool"
                   /\ messages[m + k].tool_call_id = messages[m].tool_calls[k].id
                   /\ messages[m + k].name = messages[m].tool_calls[k].name
                   /\ messages[m + k].content
                        = execute_tool_call(messages[m].tool_calls[k]).value
    /\ \A r \in 1..Len(messages) :
          messages[r].role = "tool" =>
             \E m \in 1..(r - 1) :
                /\ messages[m].role = "assistant"
                /\ r - m <= Len(messages[m].tool_calls)
                /\ \A j \in (m + 1)..r : messages[j].role = "tool"
    /\ \A i, j \in 1..Len(handlerCalls) :
          i < j => handlerCalls[i].id < handlerCalls[j].id

\* a response that named two different tools, both dispatched
C12_Witness ==
    /\ Len(messages) >= 5
    /\ messages[3].role = "assistant"
    /\ Len(messages[3].tool_calls) = 2
    /\ messages[3].tool_calls[1].name # messages[3].tool_calls[2].name
    /\ messages[4].role = "tool"
    /\ messages[5].role = "tool"
    /\ Len(handlerCalls) = 2

(***************************************************************************)
(* C14: the transcript is append-only: in every step of the loop the       *)
(* transcript before the step is a prefix of the transcript after it.      *)
(***************************************************************************)
C14_TranscriptAppendOnly ==
    [][/\ Len(messages') >= Len(messages)
       /\ SubSeq(messages', 1, Len(messages)) = messages]_vars

\* a returned session whose transcript grew by an assistant turn, two
\* tool-result turns and a further assistant turn
C14_Witness ==
    /\ pc = "done"
    /\ Len(messages) >= 6
    /\ messages[1].role = "system"
    /\ messages[2].role = "user"

(***************************************************************************)
(* C15: when the model boundary answers without naming tool calls, the     *)
(* answer is the last turn of the transcript, the loop returns with the    *)
(* answer reported and no error, and no call of the model boundary, no     *)
(* dispatch and no further turn follows.                                   *)
(***************************************************************************)
C15_AnswerEndsLoop ==
    /\ [](Answered =>
            /\ pc \in {"after", "done"}
            /\ messages[Len(messages)].role = "assistant"
            /\ messages[Len(messages)].tool_calls = <<>>
            /\ ~Failed)
    /\ [][Answered => /\ modelCalls' = modelCalls
                      /\ handlerCalls' = handlerCalls
                      /\ messages' = messages]_vars
    /\ (Answered ~> pc = "done")

\* a returned session that answered after a round of tool calls
C15_Witness ==
    /\ pc = "done"
    /\ Answered
    /\ ToolResponses(messages) >= 1

(***************************************************************************)
(* C19: read_resource returns the content of the first resource registered *)
(* under exactly the uri asked for, with that uri and its mime type, and   *)
(* the error "Resource not found" when no resource is registered under     *)
(* exactly that uri: a uri that differs from a registered one in letter    *)
(* case or is a prefix of it reads nothing.                                *)
(***************************************************************************)
C19_ReadIsExactMatch ==
    lastOp.op = "read_resource" =>
        LET same == {i \in 1..Len(resources) : resources[i].uri = lastOp.uri}
        IN IF same = {}
           THEN lastOp.result = [key |-> "error", error |-> "Resource not found"]
           ELSE /\ lastOp.result.key = "contents"
                /\ Len(lastOp.result.contents) = 1
                /\ \E i \in same :
                      /\ \A j \in same : i <= j
                      /\ lastOp.result.contents[1]
                           = [uri |-> lastOp.uri,
                              mimeType |-> resources[i].mimeType,
                              text |-> resources[i].content]

\* "RESOURCE://CONFIG" is read while "resource://config" is registered
C19_Witness ==
    /\ lastOp.op = "read_resource"
    /\ lastOp.uri = "RESOURCE://CONFIG"
    /\ \E i \in 1..Len(resources) : resources[i].uri = "resource://config"
    /\ lastOp.result.key = "error"

(***************************************************************************)
(* C20: list_tools yields, in the order of registration, one summary for   *)
(* each registered tool holding exactly its name, description and schema   *)
(* and not its handler; list_resources likewise yields one summary for     *)
(* each resource holding its uri, name, mime type and description and not  *)
(* its content; a listing changes neither registry, and listing again      *)
(* yields the same sequence.                                               *)
(***************************************************************************)
C20_ListsAreSummaries ==
    /\ [](lastOp.op = "list_tools" =>
            /\ DOMAIN lastOp.result.tools = 1..Len(tools)
            /\ \A i \in 1..Len(tools) :
                  /\ DOMAIN lastOp.result.tools[i]
                       = {"name", "description", "inputSchema"}
                  /\ lastOp.result.tools[i].name = tools[i].name
                  /\ lastOp.result.tools[i].description = tools[i].description
                  /\ lastOp.result.tools[i].inputSchema = tools[i].inputSchema)
    /\ [](lastOp.op = "list_resources" =>
            /\ DOMAIN lastOp.result.resources = 1..Len(resources)
            /\ \A i \in 1..Len(resources) :
                  /\ DOMAIN lastOp.result.resources[i]
                       = {"uri", "name", "mimeType", "description"}
                  /\ lastOp.result.resources[i].uri = resources[i].uri
                  /\ lastOp.result.resources[i].name = resources[i].name
                  /\ lastOp.result.resources[i].mimeType = resources[i].mimeType
                  /\ lastOp.result.resources[i].description
                       = resources[i].description)
    /\ [][lastOp'.op \in {"list_tools", "list_resources"} =>
            /\ tools' = tools
            /\ resources' = resources
            /\ lastOp.op = lastOp'.op => lastOp'.result = lastOp.result]_vars

\* the tools are listed while the same name is registered twice and two
\* resources are registered
C20_Witness ==
    /\ lastOp.op = "list_tools"
    /\ Len(lastOp.result.tools) = 3
    /\ tools[1].name = tools[3].name
    /\ Len(resources) = 2

(***************************************************************************)
(* C24: the iteration counter increments once for each call of the model   *)
(* boundary and never for a tool call: it equals the number of calls made, *)
(* and, after k responses, k, whether a response named one tool call or    *)
(* several.                                                                *)
(***************************************************************************)
C24_CounterCountsCycles ==
    /\ [](pc = "create" => iteration = modelCalls + 1)
    /\ [](pc \in {"while", "dispatch", "after", "done"} => iteration = modelCalls)
    /\ [](~BoundaryFailed /\ pc \in {"while", "dispatch", "after", "done"} =>
            iteration = Cardinality({m \in 1..Len(messages) :
                                        messages[m].role = "assistant"}))
    /\ [][pc = "dispatch" => iteration' = iteration]_vars

\* two responses were received, the first naming two tool calls
C24_Witness ==
    /\ iteration = 2
    /\ modelCalls = 2
    /\ Len(messages) >= 3
    /\ messages[3].role = "assistant"
    /\ Len(messages[3].tool_calls) = 2
    /\ ToolResponses(messages) >= 2

(***************************************************************************)
(* C25: in every state of a session the transcript begins with the system  *)
(* instruction followed by the request of the user, and every call of the  *)
(* model boundary is given the whole transcript as it is at the call.      *)
(***************************************************************************)
C25_TranscriptHeadAndFullCall ==
    /\ [](pc # "idle" =>
            /\ Len(messages) >= 2
            /\ messages[1].role = "system"
            /\ messages[2].role = "user")
    /\ [][modelCalls' # modelCalls => sent' = messages]_vars

\* the model boundary was called a second time, with the tool results of
\* the first response in the transcript
C25_Witness ==
    /\ modelCalls = 2
    /\ Len(sent) >= 4
    /\ sent[3].role = "assistant"
    /\ sent[4].role = "tool"

(***************************************************************************)
(* C28: a request that conforms to the schema advertised for its tool      *)
(* (required parameters present, no other names, declared types, enum      *)
(* values) is bound to the parameters of the tool function, which is       *)
(* entered; a calculator request with operation and a alone returns a      *)
(* result.                                                                 *)
(***************************************************************************)
C28_ConformingRequestBinds ==
    (AgentRan /\ request.json = "ok" /\ request.name \in TOOL_FUNCTIONS) =>
        LET schema == AgentSchema(request.name)
        IN (/\ NamesConform(schema, request.args)
            /\ TypesConform(schema, request.args)
            /\ EnumsConform(schema, request.args)) =>
               /\ agentOut.handler = request.name
               /\ (request.name = "calculator"
                     /\ DOMAIN request.args = {"operation", "a"}) =>
                        AgentSuccess(agentOut)

(***************************************************************************)
(* C29: add, subtract and multiply of the agent's calculator succeed for   *)
(* all numbers a and b, also where power or divide is undefined on them.   *)
(***************************************************************************)
C29_OperationIndependent ==
    (/\ AgentRan
     /\ request.json = "ok"
     /\ request.name = "calculator"
     /\ DOMAIN request.args = {"operation", "a", "b"}
     /\ request.args["operation"] \in {Str("add"), Str("subtract"), Str("multiply")}
     /\ IsNum(request.args["a"])
     /\ IsNum(request.args["b"])) =>
        AgentSuccess(agentOut)

(***************************************************************************)
(* C21: list_tools, list_resources, read_resource and call_tool leave the  *)
(* registries as they are: a step in which one of them returns changes     *)
(* neither tools nor resources, for registered and unknown names and uris  *)
(* and in every order of such calls.                                       *)
(***************************************************************************)
C21_ReadsLeaveRegistry ==
    [][lastOp'.op \in {"list_tools", "list_resources", "read_resource", "call_tool"}
         => /\ tools' = tools
            /\ resources' = resources]_vars

\* an unregistered uri is read from a server with tools and resources,
\* which are still registered
C21_Witness ==
    /\ lastOp.op = "read_resource"
    /\ lastOp.uri = "resource://unknown"
    /\ Len(resources) = 2
    /\ Len(tools) >= 1

C30_FirstMatch ==
    /\ [](lastOp.op = "call_tool" =>
            \/ /\ lastOp.handler = ""
               /\ \A i \in 1..Len(tools) : tools[i].name # lastOp.name
            \/ \E i \in 1..Len(tools) :
                  /\ tools[i].name = lastOp.name
                  /\ tools[i].handler = lastOp.handler
                  /\ \A j \in 1..(i - 1) : tools[j].name # lastOp.name)
    /\ [](lastOp.op = "read_resource" /\ lastOp.result.key = "contents" =>
            \E i \in 1..Len(resources) :
               /\ resources[i].uri = lastOp.uri
               /\ resources[i].content = lastOp.result.contents[1].text
               /\ \A j \in 1..(i - 1) : resources[j].uri # lastOp.uri)
    /\ [][/\ \A c \in DemoCalls :
               ResolvedHandler(tools, c.name) # "" =>
                  call_tool(tools', c.name, c.arguments)
                     = call_tool(tools, c.name, c.arguments)
          /\ \A uri \in ReadUris :
               read_resource(resources, uri).key = "contents" =>
                  read_resource(resources', uri) = read_resource(resources, uri)]_vars

\* a uri registered twice with different contents is read: the content of
\* the first registration is returned
C30_Witness ==
    /\ lastOp.op = "read_resource"
    /\ Len(resources) = 2
    /\ resources[1].uri = lastOp.uri
    /\ resources[2].uri = lastOp.uri
    /\ resources[1].content # resources[2].content
    /\ lastOp.result.key = "contents"
    /\ lastOp.result.contents[1].text = resources[1].content
    /\ \E i, j \in 1..Len(tools) :
          i < j /\ tools[i].name = tools[j].name /\ tools[i].handler # tools[j].handler

(***************************************************************************)
(* C23: a call of the model boundary that does not complete is ended by a  *)
(* timeout: the session does not stay in the call for ever but goes on to  *)
(* its return.                                                             *)
(***************************************************************************)
C23_HangIsTimedOut == (pc = "blocked") ~> (pc = "done")

(***************************************************************************)
(* C26: a response that carries both an answer and tool calls is invalid   *)
(* output: none of its tool calls is dispatched or answered by a tool      *)
(* turn, its text is not reported as the final answer, and the session     *)
(* that returns after it has reported a failure.                           *)
(***************************************************************************)
C26_MixedResponseRejected ==
    \A m \in 1..Len(messages) :
        (/\ messages[m].role = "assistant"
         /\ messages[m].content = "answer"
         /\ messages[m].tool_calls # <<>>) =>
            /\ \A k \in 1..Len(messages[m].tool_calls) :
                  /\ ~HasToolResult(messages[m].tool_calls[k].id)
                  /\ \A h \in 1..Len(handlerCalls) :
                        handlerCalls[h].id # messages[m].tool_calls[k].id
            /\ m = Len(messages)
            /\ pc = "done" => (Failed /\ ~Answered)

(***************************************************************************)
(* C22: two sessions whose steps interleave do not affect each other: a    *)
(* step changes the transcript, counter and report of one session only,    *)
(* every tool result in a transcript is what the tool call gives when its  *)
(* session runs alone, the counter of a session counts its own calls of    *)
(* the model boundary, and its report follows from its own transcript.     *)
(***************************************************************************)
C22_SessionsIndependent ==
    /\ [][\E s \in Sessions :
             \A t \in Sessions \ {s} : sessions'[t] = sessions[t]]_vars
    /\ [](\A s \in Sessions :
            LET me == sessions[s]
                failed == \E i \in 1..Len(me.printed) :
                             /\ me.printed[i].line = "Error"
                             /\ me.printed[i].detail = "APIError"
                responses == Cardinality({m \in 1..Len(me.messages) :
                                            me.messages[m].role = "assistant"})
            IN /\ \A m \in 1..Len(me.messages) :
                     me.messages[m].role = "assistant" =>
                        \A k \in 1..Len(me.messages[m].tool_calls) :
                           m + k <= Len(me.messages) =>
                              /\ me.messages[m + k].role = "tool"
                              /\ me.messages[m + k].tool_call_id
                                   = me.messages[m].tool_calls[k].id
                              /\ me.messages[m + k].content
                                   = execute_tool_call(me.messages[m].tool_calls[k]).value
               /\ me.iteration = me.modelCalls + (IF me.pc = "create" THEN 1 ELSE 0)
               /\ me.modelCalls = responses + (IF failed THEN 1 ELSE 0)
               /\ me.pc = "done" =>
                     ((\E i \in 1..Len(me.printed) : me.printed[i].line = "FinalAnswer")
                        <=> /\ me.messages[Len(me.messages)].role = "assistant"
                            /\ me.messages[Len(me.messages)].tool_calls = <<>>))

\* both sessions have returned, each after asking for the weather of Paris
\* in fahrenheit and getting 18 degrees celsius converted once
C22_Witness ==
    \A s \in Sessions :
        /\ sessions[s].pc = "done"
        /\ \E r \in 1..Len(sessions[s].messages) :
              /\ sessions[s].messages[r].role = "tool"
              /\ sessions[s].messages[r].name = "get_weather"
              /\ sessions[s].messages[r].content.result.unit = "F"
              /\ sessions[s].messages[r].content.result.temp = Quot(18 * 9 + 32 * 5, 5)
====
